---- MODULE Spec2Model ----
(***************************************************************************)
(* Model of the roaep-turnout proxy server (Express + Puppeteer): the two  *)
(* TTL caches, the shared headless browser, the raw fetch, the extraction  *)
(* of the per-electorate candidate lists, their combination and the        *)
(* /api/votes handler.                                                     *)
(*                                                                         *)
(* Time is counted in units of 10 seconds: TTL_MS (30000 ms) is 3 units    *)
(* and CACHE_TIMEOUT (20 * 1000 ms) is 2 units.                            *)
(***************************************************************************)
EXTENDS Integers, Sequences, FiniteSets, TLC

VARIABLES
    now,          \* Date.now(), in units of 10 s
    upstream,     \* url -> the version of the document the upstream serves
    cache,        \* raw-response cache: url -> entry
    votes_cache,  \* derived-list cache: list_name -> entry
    browser,      \* the module variable `browser`: 0 is null, else a browser id
    launched,     \* number of browser processes launched so far
    alive,        \* ids of the browser processes still connected
    pages,        \* browser id -> number of pages open in that browser
    sig,          \* the SIGINT handler: "run" (not signalled), "closing", "exited"
    closeAsked,   \* ids of the browsers browser.close() was called on
    req,          \* request slot -> state of the /api/votes handler running in it
    argR,         \* input of a direct call of aggregate: romList
    argD,         \* input of a direct call of aggregate: diaList
    argDoc,       \* input of a direct call of the diaspora fold: regional lists
    ret,          \* result of the direct call
    op,           \* which direct call has been made ("none" before it)
    romCandidates,       \* dashboard state: the romania list
    diaCandidates,       \* dashboard state: the diaspora list
    combinedCandidates,  \* dashboard state: the combined list
    error,               \* dashboard state: the error message, or null
    polling,      \* number of fetchData calls of the dashboard under way
    lastPoll,     \* how the fetchData call that ended last ended (history)
    succeeded,    \* whether a fetchData call has ended in success (history)
    heap,         \* the candidate objects: reference -> fields
    rawRef,       \* cache, by reference: url -> the candidate arrays of the document
    listRef,      \* votes_cache, by reference: list_name -> the array stored
    hreq,         \* the /api/votes handler over references: its position and lists
    stored,       \* the fields each entry held when it was set, and the number of
                  \* computations of the combined list (history)
    sent,         \* the last 200 body sent by that handler
    origin        \* when the data of each entry, and of the lists a request
                  \* holds or has sent, came from the upstream or was computed
                  \* (history)

vars == <<now, upstream, cache, votes_cache, browser, launched, alive, pages,
          sig, closeAsked, req, argR, argD, argDoc, ret, op,
          romCandidates, diaCandidates, combinedCandidates, error, polling,
          lastPoll, succeeded, heap, rawRef, listRef, hreq, stored, sent,
          origin>>

----------------------------------------------------------------------------
(* Bounds of the model *)

MaxTime == 4
NReq == 2
MaxLaunch == 2
MaxCands == 4
MaxRegions == 2
MaxVotes == 1
MaxPolls == 3
MaxObjects == 16

(* Program constants *)

TTL_MS == 3
CACHE_TIMEOUT == 2

AGG_URL == "pv_aggregated.json"
AGG_URL_DIAS == "pv_aggregated_sr.json"
Urls == {AGG_URL, AGG_URL_DIAS}
ListNames == {"romania", "diaspora", "combined"}

Requests == 1..NReq

----------------------------------------------------------------------------
(* Candidates and lists of candidates *)

Ids == {"2", "7", "A"}
Names == {"n1", "n2"}

Candidate == [id : Ids, candidate : Names, party : Names, votes : 0..MaxVotes]

Cand(i, n, v) == [id |-> i, candidate |-> n, party |-> n, votes |-> v]

toJSON(c) ==
    [id |-> c.id, candidate |-> c.candidate, party |-> c.party, votes |-> c.votes]

MapSeq(s, F(_)) == [i \in DOMAIN s |-> F(s[i])]

IdsOf(list) == {list[i].id : i \in DOMAIN list}

UniqueIds(list) == \A i, j \in DOMAIN list : list[i].id = list[j].id => i = j

HasId(list, id) == \E i \in DOMAIN list : list[i].id = id

\* index of the first element of list with this id (Array.prototype.find)
FindIdx(list, id) ==
    CHOOSE i \in DOMAIN list :
        /\ list[i].id = id
        /\ \A j \in DOMAIN list : list[j].id = id => i <= j

\* votes of id in list, 0 when the id is missing
VotesOf(list, id) == IF HasId(list, id) THEN list[FindIdx(list, id)].votes ELSE 0

\* variant: the votes of a later encounter replace those gathered so far
\* (`existing.votes = c.votes`)
AccumulateOverwrite(acc, c) ==
    IF HasId(acc, c.id)
    THEN [acc EXCEPT ![FindIdx(acc, c.id)].votes = c.votes]
    ELSE Append(acc, c)

\* `if (existing) existing.votes += c.votes; else push({ ...c })`
Accumulate(acc, c) ==
    IF HasId(acc, c.id)
    THEN [acc EXCEPT ![FindIdx(acc, c.id)].votes = @ + c.votes]
    ELSE Append(acc, c)

RECURSIVE FoldList(_, _)
FoldList(acc, list) ==
    IF list = <<>> THEN acc
    ELSE FoldList(Accumulate(acc, Head(list)), Tail(list))

RECURSIVE FoldRegions(_, _)
FoldRegions(acc, regions) ==
    IF regions = <<>> THEN acc
    ELSE FoldRegions(FoldList(acc, Head(regions)), Tail(regions))

\* Property keys that are canonical array indices are enumerated first, in
\* ascending numeric order, by Object.values; the other keys follow in
\* insertion order.
IndexKey(id) == CASE id = "2" -> 2 [] id = "7" -> 7 [] OTHER -> -1

IsIndexKey(id) == IndexKey(id) >= 0

RECURSIVE SelectSeqBy(_, _)
SelectSeqBy(s, wantIndex) ==
    IF s = <<>> THEN <<>>
    ELSE IF IsIndexKey(Head(s).id) = wantIndex
         THEN <<Head(s)>> \o SelectSeqBy(Tail(s), wantIndex)
         ELSE SelectSeqBy(Tail(s), wantIndex)

RECURSIVE InsertByKey(_, _)
InsertByKey(sorted, c) ==
    IF sorted = <<>> THEN <<c>>
    ELSE IF IndexKey(c.id) < IndexKey(Head(sorted).id)
         THEN <<c>> \o sorted
         ELSE <<Head(sorted)>> \o InsertByKey(Tail(sorted), c)

RECURSIVE SortByKey(_)
SortByKey(s) ==
    IF s = <<>> THEN <<>> ELSE InsertByKey(SortByKey(Tail(s)), Head(s))

ObjectValues(acc) == SortByKey(SelectSeqBy(acc, TRUE)) \o SelectSeqBy(acc, FALSE)

\* the fold of getDiasporaVotesCount over the regional candidate lists
extractDiaspora(regions) == ObjectValues(FoldRegions(<<>>, regions))

\* variant: every diaspora candidate is pushed, without the find
combineAppend(romList, diaList) == romList \o diaList

\* the computation of aggregate when the 'combined' entry is missed
combine(romList, diaList) == FoldList(romList, diaList)

----------------------------------------------------------------------------
(* Upstream documents *)

\* kind "ok": the nested scopes path is there; kind "nopath": it is not.
\* ro is scopes.CNTRY.PRSD.RO.candidates, uat the candidate lists of the
\* regions of scopes.UAT.PRSD in Object.values order.
Doc(k, r, u) == [kind |-> k, ro |-> r, uat |-> u]

NoDoc == Doc("none", <<>>, <<>>)

R1 == Doc("ok", <<Cand("A", "n1", 2), Cand("2", "n1", 1)>>, <<>>)
R2 == Doc("ok", <<Cand("A", "n1", 2), Cand("2", "n1", 2)>>, <<>>)
D1 == Doc("ok", <<>>, << <<Cand("A", "n1", 1)>>,
                         <<Cand("A", "n2", 1), Cand("7", "n1", 1)>> >>)
D2 == Doc("ok", <<>>, << <<Cand("A", "n1", 1)>>,
                         <<Cand("A", "n2", 2), Cand("7", "n1", 1)>> >>)
NoPath == Doc("nopath", <<>>, <<>>)

\* the successive versions of the document published at a url, as the count
\* goes on
Versions(url) == IF url = AGG_URL THEN <<R1, R2>> ELSE <<D1, D2>>

\* what a fetch of the url can receive: the present version, or a JSON body
\* without the scopes path
Served(url) == {Versions(url)[upstream[url]], NoPath}

----------------------------------------------------------------------------
(* The two caches *)

NoEntry == [present |-> FALSE, value |-> NoDoc, expiresAt |-> 0]
NoList == [present |-> FALSE, value |-> <<>>, expiresAt |-> 0]

\* what a lookup hands back: the map after the lookup, whether a value was
\* returned (null otherwise) and the value
Lookup(m, h, v) == [map |-> m, hit |-> h, val |-> v]

setCache(c, key, value, t) ==
    [c EXCEPT ![key] = [present |-> TRUE, value |-> value, expiresAt |-> t + TTL_MS]]

getCache(c, key, t) ==
    IF ~c[key].present THEN Lookup(c, FALSE, NoDoc)
    ELSE IF t > c[key].expiresAt
         THEN Lookup([c EXCEPT ![key] = NoEntry], FALSE, NoDoc)
         ELSE Lookup(c, TRUE, c[key].value)

isCacheValid(timestamp, t) == t < timestamp

setVotesCache(vc, list_name, data, t) ==
    [vc EXCEPT ![list_name] =
        [present |-> TRUE, value |-> data, expiresAt |-> t + CACHE_TIMEOUT]]

\* variant: a hit pushes the expiry of the entry forward
getVotesCacheSliding(vc, list_name, t) ==
    IF ~vc[list_name].present THEN Lookup(vc, FALSE, <<>>)
    ELSE IF ~isCacheValid(vc[list_name].expiresAt, t)
         THEN Lookup([vc EXCEPT ![list_name] = NoList], FALSE, <<>>)
         ELSE Lookup([vc EXCEPT ![list_name].expiresAt = t + CACHE_TIMEOUT], TRUE,
                     vc[list_name].value)

getVotesCache(vc, list_name, t) ==
    IF ~vc[list_name].present THEN Lookup(vc, FALSE, <<>>)
    ELSE IF ~isCacheValid(vc[list_name].expiresAt, t)
         THEN Lookup([vc EXCEPT ![list_name] = NoList], FALSE, <<>>)
         ELSE Lookup(vc, TRUE, vc[list_name].value)

----------------------------------------------------------------------------
(* The /api/votes handler, up to its next suspension *)

NoResp ==
    [status |-> 0, fields |-> {}, romania |-> <<>>, diaspora |-> <<>>,
     combined |-> <<>>, error |-> ""]

\* res.json({ romania, diaspora, combined })
Respond200(romList, diaList, combinedList) ==
    [status |-> 200, fields |-> {"romania", "diaspora", "combined"},
     romania |-> MapSeq(romList, toJSON), diaspora |-> MapSeq(diaList, toJSON),
     combined |-> MapSeq(combinedList, toJSON), error |-> ""]

\* variant: the catch block forgets status(502)
Respond502AsOk(message) ==
    [status |-> 200, fields |-> {"error"}, romania |-> <<>>, diaspora |-> <<>>,
     combined |-> <<>>, error |-> message]

\* res.status(502).json({ error: err.message })
Respond502(message) ==
    [status |-> 502, fields |-> {"error"}, romania |-> <<>>, diaspora |-> <<>>,
     combined |-> <<>>, error |-> message]

\* where the handler stands once its synchronous run ends: it has responded
\* (kind "respond") or it waits for the raw fetch of a stage (kind "suspend")
Out(c, vc, k, st, rl, rs) ==
    [cache |-> c, votes_cache |-> vc, kind |-> k, stage |-> st, romList |-> rl,
     resp |-> rs]

\* variant: aggregate without its cache check
aggregateRecompute(vc, romList, diaList, t) ==
    LET combinedMap == combine(romList, diaList) IN
    Lookup(setVotesCache(vc, "combined", combinedMap, t), FALSE, combinedMap)

aggregate(vc, romList, diaList, t) ==
    LET cached == getVotesCache(vc, "combined", t) IN
    IF cached.hit THEN cached
    ELSE LET combinedMap == combine(romList, diaList) IN
         Lookup(setVotesCache(cached.map, "combined", combinedMap, t), FALSE,
                combinedMap)

\* lines 230-236 of the handler: aggregate, then the response
Finish(c, vc, romList, diaList, t) ==
    LET a == aggregate(vc, romList, diaList, t) IN
    Out(c, a.map, "respond", "none", <<>>, Respond200(romList, diaList, a.val))

\* the message of the error fetchJsonWithBrowser throws from its catch block
FetchError(url) ==
    IF url = AGG_URL THEN "Failed to fetch JSON. URL: pv_aggregated.json"
    ELSE "Failed to fetch JSON. URL: pv_aggregated_sr.json"

\* variant: the failed fetch leaves an empty list in the derived cache
FetchFailedStale(c, vc, url, t) ==
    Out(c, setVotesCache(vc, IF url = AGG_URL THEN "romania" ELSE "diaspora",
                         <<>>, t),
        "respond", "none", <<>>, Respond502(FetchError(url)))

\* variant: a failed fetch is started over instead of being reported
FetchFailedRetry(c, vc, url, t) ==
    Out(c, vc, "suspend", IF url = AGG_URL THEN "romania" ELSE "diaspora", <<>>,
        NoResp)

\* fetchJsonWithBrowser throws; neither getRomaniaVotesCount nor
\* getDiasporaVotesCount catches, the handler answers 502
FetchFailed(c, vc, url, t) ==
    Out(c, vc, "respond", "none", <<>>, Respond502(FetchError(url)))

\* getDiasporaVotesCount from the raw document on
DiasporaFromData(c, vc, romList, data, t) ==
    LET votes == IF data.kind = "ok" THEN extractDiaspora(data.uat) ELSE <<>> IN
    Finish(c, setVotesCache(vc, "diaspora", votes, t), romList, votes, t)

\* variant: the raw cache is looked up before the derived cache
DiasporaStepRawFirst(c, vc, romList, t) ==
    LET raw == getCache(c, AGG_URL_DIAS, t)
        cached == getVotesCache(vc, "diaspora", t) IN
    IF cached.hit THEN Finish(raw.map, cached.map, romList, cached.val, t)
    ELSE IF raw.hit THEN DiasporaFromData(raw.map, cached.map, romList, raw.val, t)
    ELSE Out(raw.map, cached.map, "suspend", "diaspora", romList, NoResp)

\* getDiasporaVotesCount up to the await of the raw fetch
DiasporaStep(c, vc, romList, t) ==
    LET cached == getVotesCache(vc, "diaspora", t) IN
    IF cached.hit THEN Finish(c, cached.map, romList, cached.val, t)
    ELSE LET raw == getCache(c, AGG_URL_DIAS, t) IN
         IF raw.hit THEN DiasporaFromData(raw.map, cached.map, romList, raw.val, t)
         ELSE Out(raw.map, cached.map, "suspend", "diaspora", romList, NoResp)

\* getRomaniaVotesCount from the raw document on; reading the candidates
\* through a missing path throws a TypeError, caught by the handler
RomaniaFromData(c, vc, data, t) ==
    IF data.kind # "ok"
    THEN Out(c, vc, "respond", "none", <<>>, Respond502("Cannot read properties of undefined"))
    ELSE DiasporaStep(c, setVotesCache(vc, "romania", data.ro, t), data.ro, t)

\* getRomaniaVotesCount up to the await of the raw fetch
RomaniaStep(c, vc, t) ==
    LET cached == getVotesCache(vc, "romania", t) IN
    IF cached.hit THEN DiasporaStep(c, cached.map, cached.val, t)
    ELSE LET raw == getCache(c, AGG_URL, t) IN
         IF raw.hit THEN RomaniaFromData(raw.map, cached.map, raw.val, t)
         ELSE Out(raw.map, cached.map, "suspend", "romania", <<>>, NoResp)

UrlOf(stage) == IF stage = "romania" THEN AGG_URL ELSE AGG_URL_DIAS

----------------------------------------------------------------------------
(* Where the data comes from (history) *)

\* raw[u]: when the fetch of the document in cache[u] stored it, then when
\*         it returned it (the later of the two counts);
\* lists["romania"], lists["diaspora"]: that time, for the document the
\*         entry's list was extracted from;
\* lists["combined"]: when the entry's list was computed;
\* since[r]: when request r arrived;
\* held[r]: the time of the romania list request r holds;
\* resp[r]: the times of the three lists of the last 200 response of r
NoTimes == [romania |-> 0, diaspora |-> 0, combined |-> 0]

NoOrigin ==
    [raw |-> [u \in Urls |-> 0], lists |-> NoTimes,
     since |-> [r \in 1..NReq |-> 0], held |-> [r \in 1..NReq |-> 0],
     resp |-> [r \in 1..NReq |-> NoTimes]]

\* aggregate and the response: a cached combined list keeps its time, a
\* computed one is of this instant
OriginFinish(o, vc, r, romAt, diaAt, t) ==
    LET at == IF getVotesCache(vc, "combined", t).hit THEN o.lists["combined"]
              ELSE t IN
    [o EXCEPT !.lists["combined"] = at,
              !.resp[r] = [romania |-> romAt, diaspora |-> diaAt, combined |-> at]]

\* setVotesCache('diaspora', votes) from a document of time srcAt
OriginDiasporaFromData(o, vc, r, romAt, srcAt, t) ==
    OriginFinish([o EXCEPT !.lists["diaspora"] = srcAt], vc, r, romAt, srcAt, t)

\* getDiasporaVotesCount: the cached list, else the cached document, else
\* the request keeps its romania list while the fetch is awaited
OriginDiasporaStep(o, c, vc, r, romAt, t) ==
    IF getVotesCache(vc, "diaspora", t).hit
    THEN OriginFinish(o, vc, r, romAt, o.lists["diaspora"], t)
    ELSE IF getCache(c, AGG_URL_DIAS, t).hit
    THEN OriginDiasporaFromData(o, vc, r, romAt, o.raw[AGG_URL_DIAS], t)
    ELSE [o EXCEPT !.held[r] = romAt]

\* setVotesCache('romania', romList) from a document of time srcAt; a
\* document without the path sets nothing
OriginRomaniaFromData(o, c, vc, r, data, srcAt, t) ==
    IF data.kind # "ok" THEN o
    ELSE OriginDiasporaStep([o EXCEPT !.lists["romania"] = srcAt], c, vc, r,
                            srcAt, t)

\* getRomaniaVotesCount: the cached list, else the cached document
OriginRomaniaStep(o, c, vc, r, t) ==
    IF getVotesCache(vc, "romania", t).hit
    THEN OriginDiasporaStep(o, c, vc, r, o.lists["romania"], t)
    ELSE IF getCache(c, AGG_URL, t).hit
    THEN OriginRomaniaFromData(o, c, vc, r, c[AGG_URL].value, o.raw[AGG_URL], t)
    ELSE o

----------------------------------------------------------------------------
(* State of the request slots *)

\* the entries of the diaspora side as a request finds them when it arrives
\* (kept with the request for the record; the handler does not read it)
Snapshot ==
    [diaspora |-> votes_cache["diaspora"], combined |-> votes_cache["combined"],
     raw |-> cache[AGG_URL_DIAS]]

NoSnap == [diaspora |-> NoList, combined |-> NoList, raw |-> NoEntry]

\* tries lists, in order, the urls the request has started a raw fetch of
Idle ==
    [pc |-> "idle", stage |-> "none", b |-> 0, doc |-> NoDoc, romList |-> <<>>,
     resp |-> NoResp, sent |-> 0, snap |-> NoSnap, tries |-> <<>>]

Responded(rq, rs) ==
    [pc |-> "done", stage |-> "none", b |-> 0, doc |-> NoDoc, romList |-> <<>>,
     resp |-> rs, sent |-> rq.sent + 1, snap |-> rq.snap, tries |-> rq.tries]

Fetching == {"launch", "newPage", "nav", "closeOk", "closeErr"}

\* variant: a fetch that finds another fetch of the same url under way
\* waits for that one instead of starting its own
fetchJsonCoalesced(rq, st, rl) ==
    IF \E q \in Requests : req[q].pc \in Fetching /\ req[q].stage = st
    THEN [rq EXCEPT !.pc = "joined", !.stage = st, !.romList = rl, !.b = 0]
    ELSE IF browser # 0
    THEN [rq EXCEPT !.pc = "newPage", !.stage = st, !.romList = rl, !.b = browser,
                    !.tries = Append(@, UrlOf(st))]
    ELSE [rq EXCEPT !.pc = "launch", !.stage = st, !.romList = rl, !.b = 0,
                    !.tries = Append(@, UrlOf(st))]

\* fetchJsonWithBrowser past its cache check, up to its first suspension:
\* ensureBrowser returns the browser at hand and the fetch goes on to
\* b.newPage(), or there is none and it awaits puppeteer.launch
fetchJsonWithBrowser(rq, st, rl) ==
    IF browser # 0
    THEN [rq EXCEPT !.pc = "newPage", !.stage = st, !.romList = rl, !.b = browser,
                    !.tries = Append(@, UrlOf(st))]
    ELSE [rq EXCEPT !.pc = "launch", !.stage = st, !.romList = rl, !.b = 0,
                    !.tries = Append(@, UrlOf(st))]

\* the effect of a synchronous run of the handler of slot r, from state rq
Apply(r, rq, out) ==
    /\ cache' = out.cache
    /\ votes_cache' = out.votes_cache
    /\ req' = [req EXCEPT ![r] =
                  IF out.kind = "suspend"
                  THEN fetchJsonWithBrowser(rq, out.stage, out.romList)
                  ELSE Responded(rq, out.resp)]

\* fetchJsonWithBrowser of request r returns at time t: the document it
\* returns is of that instant; a fetch that throws brings nothing
OriginReturn(o, c, vc, r, t) ==
    IF req[r].pc = "closeErr" THEN o
    ELSE LET back == [o EXCEPT !.raw[UrlOf(req[r].stage)] = t] IN
         IF req[r].stage = "romania"
         THEN OriginRomaniaFromData(back, c, vc, r, req[r].doc, t, t)
         ELSE OriginDiasporaFromData(back, vc, r, o.held[r], t, t)

\* page.close() in browser b: the page is gone; in a browser that was lost
\* the pages went with it, the call rejects and the rejection is ignored
pageClose(pg, b) == IF pg[b] > 0 THEN [pg EXCEPT ![b] = @ - 1] ELSE pg

Pure == <<argR, argD, argDoc, ret, op>>

Shut == <<sig, closeAsked>>

Dash == <<romCandidates, diaCandidates, combinedCandidates, error, polling,
          lastPoll, succeeded>>

Mem == <<heap, rawRef, listRef, hreq, stored, sent>>

\* what no step of the /api/votes handler touches
Apart == <<Shut, Pure, Dash, Mem>>

\* what no step of the raw fetch touches before it has a document
Rest == <<Apart, origin>>

----------------------------------------------------------------------------
(* State of the dashboard *)

\* useState<string | null>(null): null, or a message
NoError == [isNull |-> TRUE, message |-> ""]

ErrorOf(message) == [isNull |-> FALSE, message |-> message]

\* `if (error)`: null and the empty string are falsy
Truthy(e) == ~e.isNull /\ e.message # ""

NoPoll == [kind |-> "none", body |-> NoResp]

InitDash ==
    /\ romCandidates = <<>>
    /\ diaCandidates = <<>>
    /\ combinedCandidates = <<>>
    /\ error = NoError
    /\ polling = 0
    /\ lastPoll = NoPoll
    /\ succeeded = FALSE

----------------------------------------------------------------------------
(* The caches and the handler over object references *)

NoRefs == [present |-> FALSE, refs |-> <<>>]

HIdle == [pc |-> "idle", romList |-> <<>>, diaList |-> <<>>]

InitMem ==
    /\ heap = <<>>
    /\ rawRef = [u \in Urls |-> NoRefs]
    /\ listRef = [n \in ListNames |-> NoRefs]
    /\ hreq = HIdle
    /\ stored = [raw |-> [u \in Urls |-> <<>>], lists |-> [n \in ListNames |-> <<>>],
                 combines |-> 0]
    /\ sent = NoResp

----------------------------------------------------------------------------
(* Actions *)

\* a GET /api/votes arrives
Arrive(r) ==
    /\ req[r].pc = "idle"
    /\ \A q \in Requests : q < r => req[q].pc # "idle"
    /\ Apply(r, [req[r] EXCEPT !.snap = Snapshot],
             RomaniaStep(cache, votes_cache, now))
    /\ origin' = OriginRomaniaStep([origin EXCEPT !.since[r] = now], cache,
                                    votes_cache, r, now)
    /\ UNCHANGED <<now, upstream, browser, launched, alive, pages, Apart>>

\* puppeteer.launch resolves: the module variable is assigned, the
\* 'disconnected' listener is registered, the fetch goes on to newPage
LaunchDone(r) ==
    /\ req[r].pc = "launch"
    /\ launched < MaxLaunch
    /\ launched' = launched + 1
    /\ browser' = launched + 1
    /\ alive' = alive \cup {launched + 1}
    /\ req' = [req EXCEPT ![r].pc = "newPage", ![r].b = launched + 1]
    /\ UNCHANGED <<now, upstream, cache, votes_cache, pages, Rest>>

\* puppeteer.launch rejects: the error reaches the handler's catch
LaunchFail(r) ==
    /\ req[r].pc = "launch"
    /\ req' = [req EXCEPT ![r] = Responded(req[r], Respond502("Failed to launch the browser process"))]
    /\ UNCHANGED <<now, upstream, cache, votes_cache, browser, launched, alive, pages, Rest>>

\* b.newPage() resolves; waitForResponse and goto are started and the
\* upstream serves its present document
NewPageDone(r) ==
    /\ req[r].pc = "newPage"
    /\ req[r].b \in alive
    /\ \E d \in Served(UrlOf(req[r].stage)) :
           req' = [req EXCEPT ![r].pc = "nav", ![r].doc = d]
    /\ pages' = [pages EXCEPT ![req[r].b] = @ + 1]
    /\ UNCHANGED <<now, upstream, cache, votes_cache, browser, launched, alive, Rest>>

\* b.newPage() rejects (it is outside the try block)
NewPageFail(r) ==
    /\ req[r].pc = "newPage"
    /\ req' = [req EXCEPT ![r] = Responded(req[r], Respond502("Protocol error (Target.createTarget)"))]
    /\ UNCHANGED <<now, upstream, cache, votes_cache, browser, launched, alive, pages, Rest>>

\* the response arrives and parses: setCache, then the finally block awaits
\* page.close()
NavOK(r) ==
    /\ req[r].pc = "nav"
    /\ req[r].b \in alive
    /\ cache' = setCache(cache, UrlOf(req[r].stage), req[r].doc, now)
    /\ req' = [req EXCEPT ![r].pc = "closeOk"]
    /\ origin' = [origin EXCEPT !.raw[UrlOf(req[r].stage)] = now]
    /\ UNCHANGED <<now, upstream, votes_cache, browser, launched, alive, pages, Apart>>

\* timeout, navigation failure or a body that is not JSON: the catch block
\* reads the page content, then the finally block awaits page.close()
NavFail(r) ==
    /\ req[r].pc = "nav"
    /\ req' = [req EXCEPT ![r].pc = "closeErr", ![r].doc = NoDoc]
    /\ UNCHANGED <<now, upstream, cache, votes_cache, browser, launched, alive, pages, Rest>>

\* variant: the page is closed at the end of the try block only, so the
\* error path leaves it open
CloseDoneOkOnly(r) ==
    /\ req[r].pc \in {"closeOk", "closeErr"}
    /\ Apply(r, req[r],
             IF req[r].pc = "closeErr"
             THEN FetchFailed(cache, votes_cache, UrlOf(req[r].stage), now)
             ELSE IF req[r].stage = "romania"
             THEN RomaniaFromData(cache, votes_cache, req[r].doc, now)
             ELSE DiasporaFromData(cache, votes_cache, req[r].romList,
                                   req[r].doc, now))
    /\ pages' = IF req[r].pc = "closeOk" THEN pageClose(pages, req[r].b) ELSE pages
    /\ origin' = OriginReturn(origin, cache, votes_cache, r, now)
    /\ UNCHANGED <<now, upstream, browser, launched, alive, Apart>>

\* page.close() settles: fetchJsonWithBrowser returns the data, or throws
CloseDone(r) ==
    /\ req[r].pc \in {"closeOk", "closeErr"}
    /\ Apply(r, req[r],
             IF req[r].pc = "closeErr"
             THEN FetchFailed(cache, votes_cache, UrlOf(req[r].stage), now)
             ELSE IF req[r].stage = "romania"
             THEN RomaniaFromData(cache, votes_cache, req[r].doc, now)
             ELSE DiasporaFromData(cache, votes_cache, req[r].romList,
                                   req[r].doc, now))
    /\ pages' = pageClose(pages, req[r].b)
    /\ origin' = OriginReturn(origin, cache, votes_cache, r, now)
    /\ UNCHANGED <<now, upstream, browser, launched, alive, Apart>>

\* the response has been delivered; the slot takes the next request
Dismiss(r) ==
    /\ req[r].pc = "done"
    /\ req' = [req EXCEPT ![r] = Idle]
    /\ UNCHANGED <<now, upstream, cache, votes_cache, browser, launched, alive, pages, Rest>>

\* the clock advances
Tick ==
    /\ now < MaxTime
    /\ now' = now + 1
    /\ UNCHANGED <<upstream, cache, votes_cache, browser, launched, alive, req, pages, Rest>>

\* the upstream publishes another document at a url
UpstreamChange(url) ==
    /\ upstream[url] < Len(Versions(url))
    /\ upstream' = [upstream EXCEPT ![url] = @ + 1]
    /\ UNCHANGED <<now, cache, votes_cache, browser, launched, alive, req, pages, Rest>>

\* variant: no 'disconnected' listener, browser keeps the lost process
DisconnectUnnoticed(b) ==
    /\ b \in alive
    /\ alive' = alive \ {b}
    /\ pages' = [pages EXCEPT ![b] = 0]
    /\ UNCHANGED <<now, upstream, cache, votes_cache, browser, launched, req, Rest>>

\* a browser process is lost; its 'disconnected' listener sets browser = null
Disconnect(b) ==
    /\ b \in alive
    /\ alive' = alive \ {b}
    /\ browser' = 0
    /\ pages' = [pages EXCEPT ![b] = 0]
    /\ UNCHANGED <<now, upstream, cache, votes_cache, launched, req, Rest>>

----------------------------------------------------------------------------
(* The server *)

Init ==
    /\ now = 0
    /\ upstream = [u \in Urls |-> 1]
    /\ cache = [u \in Urls |-> NoEntry]
    /\ votes_cache = [n \in ListNames |-> NoList]
    /\ browser = 0
    /\ launched = 0
    /\ alive = {}
    /\ pages = [b \in 1..MaxLaunch |-> 0]
    /\ sig = "run"
    /\ closeAsked = {}
    /\ req = [r \in Requests |-> Idle]
    /\ argR = <<>>
    /\ argD = <<>>
    /\ argDoc = <<>>
    /\ ret = <<>>
    /\ op = "none"
    /\ InitDash
    /\ InitMem
    /\ origin = NoOrigin

\* the steps of the handler running in slot r
Handler(r) ==
    \/ Arrive(r)
    \/ LaunchDone(r)
    \/ LaunchFail(r)
    \/ NewPageDone(r)
    \/ NewPageFail(r)
    \/ NavOK(r)
    \/ NavFail(r)
    \/ CloseDone(r)
    \/ Dismiss(r)

Environment ==
    \/ \E url \in Urls : UpstreamChange(url)
    \/ \E b \in 1..MaxLaunch : Disconnect(b)

\* requests served one after the other, while the clock runs
Next == Handler(1) \/ Tick \/ Environment

Spec == Init /\ [][Next]_vars

\* overlapping requests, within one unit of the clock
NextConc == (\E r \in Requests : Handler(r)) \/ Environment

SpecConc == Init /\ [][NextConc]_vars

\* what the SIGINT handler leaves alone
Serving == <<now, upstream, cache, votes_cache, launched, pages, req, Pure, Dash,
             Mem, origin>>

\* SIGINT arrives: the handler calls browser.close() on the browser the
\* variable refers to and awaits it, or there is none and it exits at once
Sigint ==
    /\ sig = "run"
    /\ IF browser # 0
       THEN sig' = "closing" /\ closeAsked' = closeAsked \cup {browser}
       ELSE sig' = "exited" /\ closeAsked' = closeAsked
    /\ UNCHANGED <<Serving, browser, alive>>

\* browser.close() of browser b resolves: the browser is gone and its
\* 'disconnected' listener has set browser = null; process.exit(0)
SigintExit(b) ==
    /\ sig = "closing"
    /\ b \in closeAsked
    /\ b \in alive
    /\ alive' = alive \ {b}
    /\ browser' = 0
    /\ pages' = [pages EXCEPT ![b] = 0]
    /\ sig' = "exited"
    /\ UNCHANGED <<now, upstream, cache, votes_cache, launched, req, Pure, Dash,
                   Mem, closeAsked, origin>>

\* browser.close() rejects, the browser having been lost meanwhile; the
\* rejection is swallowed (`.catch(() => { })`); process.exit(0)
SigintExitAnyway ==
    /\ sig = "closing"
    /\ closeAsked \cap alive = {}
    /\ sig' = "exited"
    /\ UNCHANGED <<Serving, browser, alive, closeAsked>>

\* the server until it exits: overlapping requests, browsers that get lost,
\* and one SIGINT
NextSig ==
    \/ sig # "exited" /\ \E r \in Requests : Handler(r)
    \/ sig # "exited" /\ \E b \in 1..MaxLaunch : Disconnect(b)
    \/ Sigint
    \/ \E b \in 1..MaxLaunch : SigintExit(b)
    \/ SigintExitAnyway

SpecSig == Init /\ [][NextSig]_vars

----------------------------------------------------------------------------
(* Direct calls of aggregate and of the diaspora fold *)

\* the candidates a list handed to a direct call is made of; the name tells
\* which list (romList, diaList or region) the candidate came in
IdVotes(n) == {Cand(i, n, v) : i \in Ids, v \in 0..MaxVotes}

NameOf(k) == IF k = 1 THEN "n1" ELSE "n2"

\* a 'combined' entry that is absent, expired or still valid at time 0
StaleList == <<Cand("7", "n1", 1)>>

CombinedEntries ==
    {NoList} \cup {[present |-> TRUE, value |-> StaleList, expiresAt |-> e] : e \in {0, 1}}

InitPure ==
    /\ now = 0
    /\ upstream = [u \in Urls |-> 1]
    /\ cache = [u \in Urls |-> NoEntry]
    /\ browser = 0
    /\ launched = 0
    /\ alive = {}
    /\ pages = [b \in 1..MaxLaunch |-> 0]
    /\ sig = "run"
    /\ closeAsked = {}
    /\ req = [r \in Requests |-> Idle]
    /\ argR = <<>>
    /\ argD = <<>>
    /\ argDoc = <<>>
    /\ ret = <<>>
    /\ op = "none"
    /\ InitDash
    /\ InitMem
    /\ origin = NoOrigin

System == <<now, upstream, cache, browser, launched, alive, pages, Shut, req,
            origin>>

\* the caller puts one more candidate on romList
GrowR ==
    /\ op = "none"
    /\ argD = <<>>
    /\ Len(argR) < MaxCands
    /\ \E c \in IdVotes("n1") : argR' = Append(argR, c)
    /\ UNCHANGED <<System, Dash, Mem, votes_cache, argD, argDoc, ret, op>>

\* the caller puts one more candidate on diaList
GrowD ==
    /\ op = "none"
    /\ Len(argR) + Len(argD) < MaxCands
    /\ \E c \in IdVotes("n2") : argD' = Append(argD, c)
    /\ UNCHANGED <<System, Dash, Mem, votes_cache, argR, argDoc, ret, op>>

CallAggregate ==
    /\ op = "none"
    /\ LET a == aggregate(votes_cache, argR, argD, now) IN
           /\ votes_cache' = a.map
           /\ ret' = a.val
    /\ op' = "aggregate"
    /\ UNCHANGED <<System, Dash, Mem, argR, argD, argDoc>>

InitAgg ==
    /\ InitPure
    /\ \E e \in CombinedEntries :
           votes_cache = [n \in ListNames |-> IF n = "combined" THEN e ELSE NoList]

NextAgg == GrowR \/ GrowD \/ CallAggregate

SpecAgg == InitAgg /\ [][NextAgg]_vars

\* the number of candidates the regions of a document list in all
RECURSIVE Size(_)
Size(regions) == IF regions = <<>> THEN 0 ELSE Len(Head(regions)) + Size(Tail(regions))

\* the document gets one more region, empty so far
GrowRegions ==
    /\ op = "none"
    /\ Len(argDoc) < MaxRegions
    /\ argDoc' = Append(argDoc, <<>>)
    /\ UNCHANGED <<System, Dash, Mem, votes_cache, argR, argD, ret, op>>

\* the last region of the document lists one more candidate
GrowRegion ==
    /\ op = "none"
    /\ argDoc # <<>>
    /\ Size(argDoc) < MaxCands
    /\ \E c \in IdVotes(NameOf(Len(argDoc))) :
           argDoc' = [argDoc EXCEPT ![Len(argDoc)] = Append(@, c)]
    /\ UNCHANGED <<System, Dash, Mem, votes_cache, argR, argD, ret, op>>

CallExtract ==
    /\ op = "none"
    /\ ret' = extractDiaspora(argDoc)
    /\ op' = "extractDiaspora"
    /\ UNCHANGED <<System, Dash, Mem, votes_cache, argR, argD, argDoc>>

InitFold ==
    /\ InitPure
    /\ votes_cache = [n \in ListNames |-> NoList]

NextFold == GrowRegions \/ GrowRegion \/ CallExtract

SpecFold == InitFold /\ [][NextFold]_vars

----------------------------------------------------------------------------
(* The handler over object references: which operation writes to which     *)
(* candidate object. An array is given by the references of its elements; *)
(* the arrays the code pushes to (combinedMap, the values of map) are      *)
(* created by the call that pushes.                                        *)

\* the fields of the objects an array refers to
Deref(h, refs) == [i \in DOMAIN refs |-> h[refs[i]]]

DerefRegions(h, regions) == [k \in DOMAIN regions |-> Deref(h, regions[k])]

\* a heap after a call, with the references the call hands back
Refs(h, r) == [heap |-> h, refs |-> r]

\* variant: the object itself is stored (`push(c)`, `map[c.id] = c`)
spreadAlias(h, ref) == Refs(h, <<ref>>)

\* `{ ...c }`: a new object with the fields of c
spread(h, ref) == Refs(Append(h, h[ref]), <<Len(h) + 1>>)

\* JSON.parse creates the objects of a candidate array
RECURSIVE ParseList(_, _)
ParseList(h, cs) ==
    IF cs = <<>> THEN Refs(h, <<>>)
    ELSE LET rest == ParseList(Append(h, Head(cs)), Tail(cs)) IN
         Refs(rest.heap, <<Len(h) + 1>> \o rest.refs)

RECURSIVE ParseRegions(_, _)
ParseRegions(h, regions) ==
    IF regions = <<>> THEN Refs(h, <<>>)
    ELSE LET first == ParseList(h, Head(regions))
             rest == ParseRegions(first.heap, Tail(regions)) IN
         Refs(rest.heap, <<first.refs>> \o rest.refs)

\* the candidate arrays of a document: scopes.CNTRY.PRSD.RO.candidates, or
\* the candidates of the regions of scopes.UAT.PRSD
RegionsOf(url, doc) == IF url = AGG_URL THEN <<doc.ro>> ELSE doc.uat

HasRef(h, refs, id) == \E i \in DOMAIN refs : h[refs[i]].id = id

FindRef(h, refs, id) ==
    refs[CHOOSE i \in DOMAIN refs :
            /\ h[refs[i]].id = id
            /\ \A j \in DOMAIN refs : h[refs[j]].id = id => i <= j]

\* `if (existing) existing.votes += c.votes; else push({ ...c })`, with
\* existing an element of the array under construction
AccumulateRef(h, acc, ref) ==
    IF HasRef(h, acc, h[ref].id)
    THEN Refs([h EXCEPT ![FindRef(h, acc, h[ref].id)].votes = @ + h[ref].votes], acc)
    ELSE LET copy == spread(h, ref) IN Refs(copy.heap, acc \o copy.refs)

RECURSIVE FoldRefs(_, _, _)
FoldRefs(h, acc, list) ==
    IF list = <<>> THEN Refs(h, acc)
    ELSE LET step == AccumulateRef(h, acc, Head(list)) IN
         FoldRefs(step.heap, step.refs, Tail(list))

RECURSIVE FoldRegionRefs(_, _, _)
FoldRegionRefs(h, acc, regions) ==
    IF regions = <<>> THEN Refs(h, acc)
    ELSE LET step == FoldRefs(h, acc, Head(regions)) IN
         FoldRegionRefs(step.heap, step.refs, Tail(regions))

\* the fold of getDiasporaVotesCount; Object.values(map) is a new array of
\* the objects of map, in property order
extractDiasporaRefs(h, regions) ==
    LET folded == FoldRegionRefs(h, <<>>, regions)
        keyed == [i \in DOMAIN folded.refs |->
                     [id |-> folded.heap[folded.refs[i]].id, ref |-> folded.refs[i]]]
        values == ObjectValues(keyed) IN
    Refs(folded.heap, [i \in DOMAIN values |-> values[i].ref])

\* `romList.forEach(c => { combinedMap.push({ ...c }) })`
RECURSIVE SpreadAll(_, _, _)
SpreadAll(h, acc, list) ==
    IF list = <<>> THEN Refs(h, acc)
    ELSE LET copy == spread(h, Head(list)) IN
         SpreadAll(copy.heap, acc \o copy.refs, Tail(list))

\* the computation of aggregate on a miss
combineRefs(h, romList, diaList) ==
    LET copies == SpreadAll(h, <<>>, romList) IN
    FoldRefs(copies.heap, copies.refs, diaList)

SetRefs(refs) == [present |-> TRUE, refs |-> refs]

Others == <<System, votes_cache, Pure, Dash>>

\* getRomaniaVotesCount: the array of the 'romania' entry, or the candidates
\* array of the raw document (cached, or fetched and parsed), which is then
\* stored as it is under 'romania'
HGetRomania ==
    /\ hreq.pc = "idle"
    /\ IF listRef["romania"].present
       THEN /\ hreq' = [hreq EXCEPT !.pc = "rom", !.romList = listRef["romania"].refs]
            /\ UNCHANGED <<heap, rawRef, listRef, stored>>
       ELSE \E v \in DOMAIN Versions(AGG_URL) :
              LET hit == rawRef[AGG_URL].present
                  data == IF hit THEN Refs(heap, rawRef[AGG_URL].refs)
                          ELSE ParseRegions(heap, RegionsOf(AGG_URL, Versions(AGG_URL)[v]))
                  romList == data.refs[1] IN
              /\ Len(data.heap) <= MaxObjects
              /\ heap' = data.heap
              /\ rawRef' = [rawRef EXCEPT ![AGG_URL] = SetRefs(data.refs)]
              /\ listRef' = [listRef EXCEPT !["romania"] = SetRefs(romList)]
              /\ stored' = [stored EXCEPT
                               !.raw[AGG_URL] =
                                   IF hit THEN @ ELSE DerefRegions(data.heap, data.refs),
                               !.lists["romania"] = Deref(data.heap, romList)]
              /\ hreq' = [hreq EXCEPT !.pc = "rom", !.romList = romList]
    /\ UNCHANGED <<Others, sent>>

\* getDiasporaVotesCount: the array of the 'diaspora' entry, or the fold
\* over the regions of the raw document (cached, or fetched and parsed)
HGetDiaspora ==
    /\ hreq.pc = "rom"
    /\ IF listRef["diaspora"].present
       THEN /\ hreq' = [hreq EXCEPT !.pc = "dia", !.diaList = listRef["diaspora"].refs]
            /\ UNCHANGED <<heap, rawRef, listRef, stored>>
       ELSE \E v \in DOMAIN Versions(AGG_URL_DIAS) :
              LET hit == rawRef[AGG_URL_DIAS].present
                  data == IF hit THEN Refs(heap, rawRef[AGG_URL_DIAS].refs)
                          ELSE ParseRegions(heap,
                                   RegionsOf(AGG_URL_DIAS, Versions(AGG_URL_DIAS)[v]))
                  votes == extractDiasporaRefs(data.heap, data.refs) IN
              /\ Len(votes.heap) <= MaxObjects
              /\ heap' = votes.heap
              /\ rawRef' = [rawRef EXCEPT ![AGG_URL_DIAS] = SetRefs(data.refs)]
              /\ listRef' = [listRef EXCEPT !["diaspora"] = SetRefs(votes.refs)]
              /\ stored' = [stored EXCEPT
                               !.raw[AGG_URL_DIAS] =
                                   IF hit THEN @ ELSE DerefRegions(data.heap, data.refs),
                               !.lists["diaspora"] = Deref(votes.heap, votes.refs)]
              /\ hreq' = [hreq EXCEPT !.pc = "dia", !.diaList = votes.refs]
    /\ UNCHANGED <<Others, sent>>

\* aggregate, then res.json with the three lists mapped through toJSON
HAggregate ==
    /\ hreq.pc = "dia"
    /\ LET hit == listRef["combined"].present
           combinedMap == IF hit THEN Refs(heap, listRef["combined"].refs)
                          ELSE combineRefs(heap, hreq.romList, hreq.diaList) IN
       /\ Len(combinedMap.heap) <= MaxObjects
       /\ heap' = combinedMap.heap
       /\ listRef' = [listRef EXCEPT !["combined"] = SetRefs(combinedMap.refs)]
       /\ stored' = IF hit THEN stored
                    ELSE [stored EXCEPT
                             !.lists["combined"] = Deref(combinedMap.heap, combinedMap.refs),
                             !.combines = @ + 1]
       /\ sent' = Respond200(Deref(combinedMap.heap, hreq.romList),
                             Deref(combinedMap.heap, hreq.diaList),
                             Deref(combinedMap.heap, combinedMap.refs))
    /\ hreq' = HIdle
    /\ UNCHANGED <<Others, rawRef>>

\* the time of a derived entry is up: the next getVotesCache deletes it
HExpireList(n) ==
    /\ listRef[n].present
    /\ listRef' = [listRef EXCEPT ![n] = NoRefs]
    /\ UNCHANGED <<Others, heap, rawRef, hreq, stored, sent>>

\* the time of a raw entry is up: the next getCache deletes it
HExpireRaw(u) ==
    /\ rawRef[u].present
    /\ rawRef' = [rawRef EXCEPT ![u] = NoRefs]
    /\ UNCHANGED <<Others, heap, listRef, hreq, stored, sent>>

NextMem ==
    \/ HGetRomania
    \/ HGetDiaspora
    \/ HAggregate
    \/ \E n \in ListNames : HExpireList(n)
    \/ \E u \in Urls : HExpireRaw(u)

SpecMem == Init /\ [][NextMem]_vars

----------------------------------------------------------------------------
(* The dashboard *)

\* the votes a list given to sortDiff can show
DashVotes == 0..(MaxVotes + 1)

RECURSIVE InsertAscending(_, _)
InsertAscending(sorted, c) ==
    IF sorted = <<>> THEN <<c>>
    ELSE IF c.votes < Head(sorted).votes
         THEN <<c>> \o sorted
         ELSE <<Head(sorted)>> \o InsertAscending(Tail(sorted), c)

\* Array.prototype.sort is stable: of two candidates the comparator calls
\* equal (b.votes - a.votes = 0), the one that came first stays first
RECURSIVE InsertDescending(_, _)
InsertDescending(sorted, c) ==
    IF sorted = <<>> THEN <<c>>
    ELSE IF c.votes > Head(sorted).votes
         THEN <<c>> \o sorted
         ELSE <<Head(sorted)>> \o InsertDescending(Tail(sorted), c)

RECURSIVE SortWith(_, _, _)
SortWith(Insert(_, _), acc, arr) ==
    IF arr = <<>> THEN acc ELSE SortWith(Insert, Insert(acc, Head(arr)), Tail(arr))

\* `{ ...c, diff: i < sorted.length - 1 ? c.votes - sorted[i + 1].votes : 0 }`
WithDiff(sorted) ==
    [i \in DOMAIN sorted |->
        [id |-> sorted[i].id, candidate |-> sorted[i].candidate,
         party |-> sorted[i].party, votes |-> sorted[i].votes,
         diff |-> IF i < Len(sorted) THEN sorted[i].votes - sorted[i + 1].votes
                  ELSE 0]]

\* what a call leaves behind: arr is the array the caller passed, as it is
\* after the call, out the array returned
Called(a, o) == [arr |-> a, out |-> o]

\* variant: the comparator is a.votes - b.votes
sortDiffAscending(arr) ==
    Called(arr, WithDiff(SortWith(InsertAscending, <<>>, arr)))

\* `[...arr].sort(...)` sorts a copy; arr itself is not touched
sortDiff(arr) ==
    Called(arr, WithDiff(SortWith(InsertDescending, <<>>, arr)))

\* what the component renders from its state
View(v, m, rl, dl, cl) ==
    [view |-> v, message |-> m, romList |-> rl, diaList |-> dl, combinedList |-> cl]

\* the render of App: the error branch, the loading branch, the lists
App(rom, dia, comb, err) ==
    IF Truthy(err) THEN View("error", err.message, <<>>, <<>>, <<>>)
    ELSE IF Len(rom) = 0 \/ Len(dia) = 0 \/ Len(comb) = 0
         THEN View("loading", "", <<>>, <<>>, <<>>)
         ELSE View("data", "", sortDiff(rom).out, sortDiff(dia).out, sortDiff(comb).out)

Rendered == App(romCandidates, diaCandidates, combinedCandidates, error)

\* the 200 bodies the server can send: a romania list and a diaspora list
\* of one of the upstream versions, or of a document that lists no candidate
\* (for the diaspora list, also of one without the scopes path), and the
\* combined list of the two
Bodies ==
    {Respond200(r, d, combine(r, d)) :
        r \in {<<>>, R1.ro, R2.ro},
        d \in {<<>>, extractDiaspora(D1.uat), extractDiaspora(D2.uat)}}

\* what fetchData can throw: the status of a response that is not ok, the
\* rejection of fetch itself, an error without a message
Thrown == {"HTTP error! status: 502", "Failed to fetch", ""}

Server == <<System, votes_cache, Pure, Mem>>

\* the effect runs fetchData, at mount and at every tick of the interval
PollStart ==
    /\ polling < MaxPolls
    /\ polling' = polling + 1
    /\ UNCHANGED <<Server, romCandidates, diaCandidates, combinedCandidates,
                   error, lastPoll, succeeded>>

\* fetchData throws: `setError(err.message || 'Unexpected error')`
PollFail ==
    /\ polling > 0
    /\ \E m \in Thrown :
           /\ error' = ErrorOf(IF m # "" THEN m ELSE "Unexpected error")
           /\ lastPoll' = [kind |-> "failed", body |-> Respond502(m)]
    /\ polling' = polling - 1
    /\ UNCHANGED <<Server, romCandidates, diaCandidates, combinedCandidates,
                   succeeded>>

\* fetchData gets a 200 and its body parses: the three lists are set and
\* the error is cleared
PollOk ==
    /\ polling > 0
    /\ \E data \in Bodies :
           /\ romCandidates' = data.romania
           /\ diaCandidates' = data.diaspora
           /\ combinedCandidates' = data.combined
           /\ lastPoll' = [kind |-> "ok", body |-> data]
    /\ error' = NoError
    /\ succeeded' = TRUE
    /\ polling' = polling - 1
    /\ UNCHANGED Server

NextDash == PollStart \/ PollOk \/ PollFail

SpecDash == Init /\ [][NextDash]_vars

\* the caller puts one more candidate on the list it hands to sortDiff
GrowArr ==
    /\ op = "none"
    /\ Len(argR) < MaxCands
    /\ \E i \in Ids, v \in DashVotes : argR' = Append(argR, Cand(i, "n1", v))
    /\ UNCHANGED <<System, Dash, Mem, votes_cache, argD, argDoc, ret, op>>

CallSortDiff ==
    /\ op = "none"
    /\ argR' = sortDiff(argR).arr
    /\ ret' = sortDiff(argR).out
    /\ op' = "sortDiff"
    /\ UNCHANGED <<System, Dash, Mem, votes_cache, argD, argDoc>>

NextSort == GrowArr \/ CallSortDiff

SpecSort == InitFold /\ [][NextSort]_vars

----------------------------------------------------------------------------
(* Properties *)

\* out holds exactly the ids of R and of D, each with the votes of both sides
\* added up (0 for a side that lacks the id)
SumOfBoth(R, D, out) ==
    /\ IdsOf(out) = IdsOf(R) \cup IdsOf(D)
    /\ \A id \in IdsOf(R) \cup IdsOf(D) :
           VotesOf(out, id) = VotesOf(R, id) + VotesOf(D, id)

\* the 'combined' entry is there and has not expired
CombinedValid ==
    votes_cache["combined"].present /\ now < votes_cache["combined"].expiresAt

\* the step in which the handler of slot r sends its response
Answers(r) == req[r].pc # "done" /\ req'[r].pc = "done"

\* C1: in every 200 response the combined list holds exactly the ids of the
\* romania and diaspora lists of that response, each with the sum of the
\* votes of the two sides (a missing side counts as 0).
C1_CombinedIsSumOfResponse ==
    \A r \in Requests :
        req[r].resp.status = 200 =>
            SumOfBoth(req[r].resp.romania, req[r].resp.diaspora,
                      req[r].resp.combined)

\* the ids of a list, in the order of the list
IdSeq(list) == [i \in DOMAIN list |-> list[i].id]

\* the candidates of D whose id R lacks, in the order of D
RECURSIVE OnlyIn(_, _)
OnlyIn(D, R) ==
    IF D = <<>> THEN <<>>
    ELSE IF HasId(R, Head(D).id) THEN OnlyIn(Tail(D), R)
         ELSE <<Head(D)>> \o OnlyIn(Tail(D), R)

\* C2: when no unexpired 'combined' entry exists, aggregate(R, D) for lists
\* with unique ids returns a list without duplicate ids, holding exactly the
\* ids of R and D with the votes of both sides added up, in R's order
\* followed by the candidates only D has, in D's order.
C2_AggregateMerges ==
    [][(CallAggregate /\ ~CombinedValid /\ UniqueIds(argR) /\ UniqueIds(argD)) =>
          (/\ UniqueIds(ret')
           /\ SumOfBoth(argR, argD, ret')
           /\ IdSeq(ret') = IdSeq(argR) \o IdSeq(OnlyIn(argD, argR)))]_vars

\* aggregate has run on a miss, with an id on both sides and one only D has
C2_Witness ==
    /\ op = "aggregate"
    /\ votes_cache["combined"].value = ret
    /\ votes_cache["combined"].expiresAt = now + CACHE_TIMEOUT
    /\ UniqueIds(argR) /\ UniqueIds(argD)
    /\ IdsOf(argR) \cap IdsOf(argD) # {}
    /\ IdsOf(argD) \ IdsOf(argR) # {}
    /\ IdsOf(argR) \ IdsOf(argD) # {}

\* C3: while an unexpired 'combined' entry exists, the combine step of a
\* request returns the cached list whatever the romania and diaspora lists
\* are, and leaves the entry, its value and its expiry as they were.
C3_CachedCombinedReturned ==
    [][\A r \in Requests :
          (Answers(r) /\ req'[r].resp.status = 200 /\ CombinedValid) =>
              (/\ req'[r].resp.combined =
                      MapSeq(votes_cache["combined"].value, toJSON)
               /\ votes_cache'["combined"] = votes_cache["combined"])]_vars

\* a response served the cached combined list although its romania and
\* diaspora lists differ from those the list was computed from
C3_Witness ==
    \E r \in Requests :
        /\ req[r].resp.status = 200
        /\ CombinedValid
        /\ req[r].resp.combined = MapSeq(votes_cache["combined"].value, toJSON)
        /\ ~SumOfBoth(req[r].resp.romania, req[r].resp.diaspora,
                      req[r].resp.combined)

\* C4: in both caches and for every key, get returns the stored value if and
\* only if the entry is present and now < expiresAt; at every time
\* now >= expiresAt it reports absent.
C4_GetIffNowBeforeExpiry ==
    /\ \A u \in Urls :
           /\ getCache(cache, u, now).hit <=>
                  (cache[u].present /\ now < cache[u].expiresAt)
           /\ getCache(cache, u, now).hit =>
                  getCache(cache, u, now).val = cache[u].value
    /\ \A n \in ListNames :
           /\ getVotesCache(votes_cache, n, now).hit <=>
                  (votes_cache[n].present /\ now < votes_cache[n].expiresAt)
           /\ getVotesCache(votes_cache, n, now).hit =>
                  getVotesCache(votes_cache, n, now).val = votes_cache[n].value

\* the request of slot r was answered 502 because the raw fetch of the
\* Diaspora url failed
DiasporaFetchFailed(r) ==
    /\ req[r].pc = "done"
    /\ req[r].resp.status = 502
    /\ req[r].resp.error = FetchError(AGG_URL_DIAS)

\* the step in which the failed raw fetch of the Diaspora url reaches the
\* handler of slot r
DiasporaFetchFails(r) ==
    req[r].pc = "closeErr" /\ req[r].stage = "diaspora" /\ req'[r] # req[r]

ThreeLists == {"romania", "diaspora", "combined"}

C7_MissingPathFailsRequest ==
    [][\A r \in Requests :
          (req[r].pc = "closeOk" /\ req[r].doc.kind = "nopath" /\ req'[r] # req[r]) =>
              /\ Answers(r)
              /\ req'[r].resp.status = 502
              /\ votes_cache' = votes_cache]_vars

\* C8 helpers: the votes an id gathers over all the regions, and the first
\* region that lists it
RECURSIVE SumOverRegions(_, _)
SumOverRegions(regions, id) ==
    IF regions = <<>> THEN 0
    ELSE VotesOf(Head(regions), id) + SumOverRegions(Tail(regions), id)

FirstRegionWith(regions, id) ==
    CHOOSE k \in DOMAIN regions :
        /\ HasId(regions[k], id)
        /\ \A j \in DOMAIN regions : HasId(regions[j], id) => k <= j

FirstSeen(regions, id) ==
    LET region == regions[FirstRegionWith(regions, id)] IN
    region[FindIdx(region, id)]

AllIds(regions) == UNION {IdsOf(regions[k]) : k \in DOMAIN regions}

\* C8: for regional lists that each list an id at most once, the fold
\* returns one entry per id seen in any region, with the votes of the id
\* summed over the regions and the name and party of its first encounter.
C8_FoldSumsPerId ==
    (op = "extractDiaspora" /\ \A k \in DOMAIN argDoc : UniqueIds(argDoc[k])) =>
        /\ UniqueIds(ret)
        /\ IdsOf(ret) = AllIds(argDoc)
        /\ \A i \in DOMAIN ret :
               /\ ret[i].votes = SumOverRegions(argDoc, ret[i].id)
               /\ ret[i].candidate = FirstSeen(argDoc, ret[i].id).candidate
               /\ ret[i].party = FirstSeen(argDoc, ret[i].id).party

\* the fold has run over two regions that share an id, under different names
\* and with votes on both sides
C8_Witness ==
    /\ op = "extractDiaspora"
    /\ Len(argDoc) = 2
    /\ UniqueIds(argDoc[1]) /\ UniqueIds(argDoc[2])
    /\ \E id \in IdsOf(argDoc[1]) \cap IdsOf(argDoc[2]) :
           /\ VotesOf(argDoc[1], id) > 0
           /\ VotesOf(argDoc[2], id) > 0
           /\ VotesOf(ret, id) = VotesOf(argDoc[1], id) + VotesOf(argDoc[2], id)
    /\ IdsOf(argDoc[2]) \ IdsOf(argDoc[1]) # {}

\* the requests with a raw fetch of url under way
InFlight(url) ==
    {r \in Requests : req[r].pc \in Fetching /\ UrlOf(req[r].stage) = url}

\* C9: the variable browser never refers to a disconnected browser, so no
\* fetch fails for good because of a lost one: a fetch that starts while
\* browser is null awaits a launch, and a launch that resolves hands the
\* fetch a new, connected browser.
C9_LostBrowserIsRelaunched ==
    /\ [](browser # 0 => browser \in alive)
    /\ [][\A r \in Requests :
             /\ (browser = 0 /\ req[r].pc \notin Fetching /\ req'[r].pc \in Fetching)
                    => req'[r].pc = "launch"
             /\ (req[r].pc = "launch" /\ req'[r].pc = "newPage")
                    => /\ browser' > launched
                       /\ browser' \in alive'
                       /\ req'[r].b = browser']_vars

\* after a browser was lost, a fetch got its response through a browser
\* launched since
C9_Witness ==
    \E r \in Requests :
        /\ req[r].pc = "closeOk"
        /\ req[r].b = browser
        /\ browser \in alive
        /\ \E b \in 1..launched : b \notin alive /\ b < browser

\* neither the derived entry nor the raw entry of the Romania step is served
ColdRomania ==
    /\ ~getVotesCache(votes_cache, "romania", now).hit
    /\ ~getCache(cache, AGG_URL, now).hit

ColdDiaspora ==
    /\ ~getVotesCache(votes_cache, "diaspora", now).hit
    /\ ~getCache(cache, AGG_URL_DIAS, now).hit

\* C10: a request that finds the caches of a step cold starts a raw fetch of
\* its own, whatever fetches of the same url are under way, and every fetch
\* that gets its response writes the raw cache, and the derived cache once
\* it returns.
C10_FetchesNotCoalesced ==
    [][\A r \in Requests :
          /\ (req[r].pc = "idle" /\ req'[r] # req[r] /\ ColdRomania) =>
                 InFlight(AGG_URL)' = InFlight(AGG_URL) \cup {r}
          /\ (/\ req[r].pc = "closeOk" /\ req[r].stage = "romania"
              /\ req[r].doc.kind = "ok" /\ req'[r] # req[r] /\ ColdDiaspora) =>
                 InFlight(AGG_URL_DIAS)' = InFlight(AGG_URL_DIAS) \cup {r}
          /\ (req[r].pc = "nav" /\ req'[r].pc = "closeOk") =>
                 cache'[UrlOf(req[r].stage)] =
                     [present |-> TRUE, value |-> req[r].doc,
                      expiresAt |-> now + TTL_MS]
          /\ (/\ req[r].pc = "closeOk" /\ req[r].stage = "romania"
              /\ req[r].doc.kind = "ok" /\ req'[r] # req[r]) =>
                 votes_cache'["romania"] =
                     [present |-> TRUE, value |-> req[r].doc.ro,
                      expiresAt |-> now + CACHE_TIMEOUT]]_vars

\* two fetches of the Romania url were under way at once, each got its
\* response and each has written the raw cache
C10_Witness ==
    \E r, q \in Requests :
        /\ r # q
        /\ req[r].pc = "closeOk" /\ req[r].stage = "romania"
        /\ req[q].pc = "closeOk" /\ req[q].stage = "romania"
        /\ cache[AGG_URL].value = req[q].doc
        /\ req[r].doc # req[q].doc

\* the step in which the handler of slot r starts the raw fetch of a stage
StartsFetch(r, st) ==
    /\ req[r].pc \notin {"launch", "newPage"}
    /\ req'[r].pc \in {"launch", "newPage"}
    /\ req'[r].stage = st

\* the Romania step of the request of slot r completes in this step, or has
\* completed, with a list
RomaniaCompletes(r) ==
    \/ /\ req[r].pc = "idle"
       /\ \/ getVotesCache(votes_cache, "romania", now).hit
          \/ /\ getCache(cache, AGG_URL, now).hit
             /\ getCache(cache, AGG_URL, now).val.kind = "ok"
    \/ req[r].pc = "closeOk" /\ req[r].stage = "romania" /\ req[r].doc.kind = "ok"

\* the step in which a raw fetch of slot r ends in failure
FetchFails(r) ==
    /\ req'[r] # req[r]
    /\ \/ req[r].pc = "launch" /\ req'[r].pc # "newPage"
       \/ req[r].pc = "newPage" /\ req'[r].pc # "nav"
       \/ req[r].pc = "closeErr"

\* C11: within one request at most one raw fetch is started per url, and a
\* fetch that fails is not started again: the request answers 502 at once;
\* the fetch of the Diaspora url starts only once the Romania step has
\* completed with a list, and the 'combined' entry is written only in the
\* step that answers 200, from the two lists of that answer.
C11_OneFetchPerUrlInOrder ==
    /\ [](\A r \in Requests :
             /\ \A i, j \in DOMAIN req[r].tries :
                    req[r].tries[i] = req[r].tries[j] => i = j
             /\ req[r].tries \in {<<>>, <<AGG_URL>>, <<AGG_URL_DIAS>>,
                                  <<AGG_URL, AGG_URL_DIAS>>})
    /\ [][\A r \in Requests :
             /\ FetchFails(r) =>
                    /\ Answers(r)
                    /\ req'[r].resp.status = 502
                    /\ req'[r].tries = req[r].tries
             /\ StartsFetch(r, "romania") => req[r].pc = "idle"
             /\ StartsFetch(r, "diaspora") =>
                    /\ RomaniaCompletes(r)
                    /\ votes_cache'["romania"].present
                    /\ req'[r].romList = votes_cache'["romania"].value
             /\ (/\ req'[r] # req[r]
                 /\ votes_cache'["combined"] # votes_cache["combined"]
                 /\ votes_cache'["combined"].present) =>
                    /\ Answers(r)
                    /\ req'[r].resp.status = 200
                    /\ votes_cache'["combined"].value =
                           combine(req'[r].resp.romania, req'[r].resp.diaspora)]_vars

\* a request fetched the Romania url, then the Diaspora url, and was answered
\* 502 when the second fetch failed, without a second attempt
C11_Witness ==
    \E r \in Requests :
        /\ DiasporaFetchFailed(r)
        /\ req[r].tries = <<AGG_URL, AGG_URL_DIAS>>

\* C12: after any sequence of polls, if the poll that ended last failed the
\* error state is displayed, with no candidate of an earlier poll; if it
\* succeeded the error is cleared and the lists of that poll are displayed.
C12_LastPollIsDisplayed ==
    /\ lastPoll.kind = "failed" =>
           /\ Rendered.view = "error"
           /\ Rendered.romList = <<>>
           /\ Rendered.diaList = <<>>
           /\ Rendered.combinedList = <<>>
    /\ lastPoll.kind = "ok" =>
           /\ error = NoError
           /\ Rendered.view = "data"
           /\ Rendered.romList = sortDiff(lastPoll.body.romania).out
           /\ Rendered.diaList = sortDiff(lastPoll.body.diaspora).out
           /\ Rendered.combinedList = sortDiff(lastPoll.body.combined).out

\* C18: once a poll has succeeded the dashboard is never in the loading
\* state again, whatever the lists hold.
C18_NoLoadingAfterSuccess ==
    succeeded => Rendered.view # "loading"

\* the number of pages open, over all the browsers
RECURSIVE PagesIn(_)
PagesIn(bs) ==
    IF bs = {} THEN 0
    ELSE LET b == CHOOSE x \in bs : TRUE IN pages[b] + PagesIn(bs \ {b})

OpenPages == PagesIn(DOMAIN pages)

\* the requests with a raw fetch under way
FetchesInFlight == {r \in Requests : req[r].pc \in Fetching}

\* the step in which the raw fetch of slot r returns or throws, having
\* opened a page
FetchEnds(r) == req[r].pc \in {"closeOk", "closeErr"} /\ req'[r] # req[r]

\* C14: the page a raw fetch opened is closed when the fetch returns or
\* throws, on the success path and on the error path alike; so no page is
\* open while no raw fetch is under way, and there are never more pages
\* open than raw fetches under way.
C14_PagesClosedOnEveryPath ==
    /\ [](/\ OpenPages <= Cardinality(FetchesInFlight)
          /\ FetchesInFlight = {} => OpenPages = 0
          /\ \A b \in DOMAIN pages : b \notin alive => pages[b] = 0)
    /\ [][\A r \in Requests :
             FetchEnds(r) =>
                 \/ pages'[req[r].b] = pages[req[r].b] - 1
                 \/ req[r].b \notin alive /\ pages'[req[r].b] = 0]_vars

\* a raw fetch opened a page in a browser that is still there, failed and
\* threw, and no page is left open
C14_Witness ==
    \E r \in Requests :
        /\ req[r].pc = "done"
        /\ req[r].resp.error \in {FetchError(u) : u \in Urls}
        /\ browser \in alive
        /\ FetchesInFlight = {}
        /\ OpenPages = 0

\* C15: at most one browser the service launched is alive at any time, also
\* when several raw fetches start while there is no browser; every fetch
\* that got a browser from such a start holds the shared one, and every
\* browser alive is the one the variable browser refers to.
C15_OneSharedBrowser ==
    /\ Cardinality(alive) <= 1
    /\ alive \subseteq {browser}
    /\ \A r \in Requests :
           (req[r].pc \in {"newPage", "nav", "closeOk", "closeErr"} /\ req[r].b \in alive)
               => req[r].b = browser

\* C19: the process does not exit while a browser the service launched is
\* still connected and has not had close called on it, be it the one the
\* variable browser refers to or one that a concurrent launch superseded.
C19_NoExitBeforeCloseAsked ==
    sig = "exited" => alive \subseteq closeAsked

\* some request takes a step
RequestStep == \E r \in Requests : req'[r] # req[r]

\* the step in which a raw fetch of url u gets its response
FetchSucceeds(u) ==
    \E r \in Requests :
        /\ req[r].pc = "nav" /\ req'[r].pc = "closeOk"
        /\ UrlOf(req[r].stage) = u
        /\ cache'[u].value = req[r].doc

\* the documents and lists a set can be handed
SomeDocs == {R1, R2, D1, D2, NoPath}

SomeLists == {<<>>, R1.ro, R2.ro, extractDiaspora(D1.uat)}

\* C16: an entry comes into being only by a set, after a fetch that got its
\* response or after a computation that found no entry to serve, with
\* expiresAt = now + TTL; it goes only by a get of its key when it has
\* expired; a set leaves the other keys and the other cache alone; a get
\* that hits changes nothing; an expired entry nobody reads stays.
C16_EntriesSetAndEvictedOnly ==
    /\ [](/\ \A u \in Urls, d \in SomeDocs :
                 /\ setCache(cache, u, d, now)[u] =
                        [present |-> TRUE, value |-> d, expiresAt |-> now + TTL_MS]
                 /\ \A u2 \in Urls \ {u} : setCache(cache, u, d, now)[u2] = cache[u2]
                 /\ getCache(cache, u, now).hit => getCache(cache, u, now).map = cache
                 /\ \A u2 \in Urls \ {u} : getCache(cache, u, now).map[u2] = cache[u2]
          /\ \A n \in ListNames, l \in SomeLists :
                 /\ setVotesCache(votes_cache, n, l, now)[n] =
                        [present |-> TRUE, value |-> l, expiresAt |-> now + CACHE_TIMEOUT]
                 /\ \A n2 \in ListNames \ {n} :
                        setVotesCache(votes_cache, n, l, now)[n2] = votes_cache[n2]
                 /\ getVotesCache(votes_cache, n, now).hit =>
                        getVotesCache(votes_cache, n, now).map = votes_cache
                 /\ \A n2 \in ListNames \ {n} :
                        getVotesCache(votes_cache, n, now).map[n2] = votes_cache[n2])
    /\ [][/\ \A u \in Urls :
                cache'[u] # cache[u] =>
                    \/ /\ cache'[u].present
                       /\ cache'[u].expiresAt = now + TTL_MS
                       /\ FetchSucceeds(u)
                       /\ \A u2 \in Urls \ {u} : cache'[u2] = cache[u2]
                       /\ votes_cache' = votes_cache
                    \/ /\ cache'[u] = NoEntry
                       /\ cache[u].present
                       /\ now > cache[u].expiresAt
                       /\ RequestStep
          /\ \A n \in ListNames :
                votes_cache'[n] # votes_cache[n] =>
                    \/ /\ votes_cache'[n].present
                       /\ votes_cache'[n].expiresAt = now + CACHE_TIMEOUT
                       /\ ~getVotesCache(votes_cache, n, now).hit
                       /\ RequestStep
                    \/ /\ votes_cache'[n] = NoList
                       /\ votes_cache[n].present
                       /\ now >= votes_cache[n].expiresAt
                       /\ RequestStep]_vars

\* the raw entry of the Romania url has just been set again, while the raw
\* entry of the Diaspora url, expired and not read since, is still there
C16_Witness ==
    /\ cache[AGG_URL].present
    /\ cache[AGG_URL].expiresAt = now + TTL_MS
    /\ now > 0
    /\ cache[AGG_URL_DIAS].present
    /\ now > cache[AGG_URL_DIAS].expiresAt
    /\ votes_cache["diaspora"].present
    /\ now >= votes_cache["diaspora"].expiresAt

\* the step in which the handler of slot r calls getRomaniaVotesCount
RomaniaRuns(r) == req[r].pc = "idle" /\ req'[r] # req[r]

\* the step in which the handler of slot r calls getDiasporaVotesCount
DiasporaRuns(r) == RomaniaCompletes(r) /\ req'[r] # req[r]

DerivedEntry(list) ==
    [present |-> TRUE, value |-> list, expiresAt |-> now + CACHE_TIMEOUT]

\* C17: when the derived entry of a step is unexpired the step returns it
\* without looking at the raw cache (an expired raw entry stays), without a
\* raw fetch and without writing; when the derived entry is missed and the
\* raw entry is unexpired, the list is extracted again from the cached
\* document, without a raw fetch, and only the derived entry is written.
C17_HitsShortCircuit ==
    [][\A r \in Requests :
          /\ (RomaniaRuns(r) /\ getVotesCache(votes_cache, "romania", now).hit) =>
                 /\ cache'[AGG_URL] = cache[AGG_URL]
                 /\ votes_cache'["romania"] = votes_cache["romania"]
                 /\ ~StartsFetch(r, "romania")
                 /\ req'[r].tries = <<>> \/ req'[r].tries = <<AGG_URL_DIAS>>
          /\ (/\ RomaniaRuns(r)
              /\ ~getVotesCache(votes_cache, "romania", now).hit
              /\ getCache(cache, AGG_URL, now).hit
              /\ cache[AGG_URL].value.kind = "ok") =>
                 /\ cache'[AGG_URL] = cache[AGG_URL]
                 /\ votes_cache'["romania"] = DerivedEntry(cache[AGG_URL].value.ro)
                 /\ ~StartsFetch(r, "romania")
          /\ (DiasporaRuns(r) /\ getVotesCache(votes_cache, "diaspora", now).hit) =>
                 /\ cache'[AGG_URL_DIAS] = cache[AGG_URL_DIAS]
                 /\ votes_cache'["diaspora"] = votes_cache["diaspora"]
                 /\ ~StartsFetch(r, "diaspora")
                 /\ req'[r].resp.diaspora = votes_cache["diaspora"].value
          /\ (/\ DiasporaRuns(r)
              /\ ~getVotesCache(votes_cache, "diaspora", now).hit
              /\ getCache(cache, AGG_URL_DIAS, now).hit
              /\ cache[AGG_URL_DIAS].value.kind = "ok") =>
                 /\ cache'[AGG_URL_DIAS] = cache[AGG_URL_DIAS]
                 /\ votes_cache'["diaspora"] =
                        DerivedEntry(extractDiaspora(cache[AGG_URL_DIAS].value.uat))
                 /\ ~StartsFetch(r, "diaspora")
                 /\ req'[r].resp.diaspora =
                        extractDiaspora(cache[AGG_URL_DIAS].value.uat)]_vars

\* a request was answered without any raw fetch: it found the 'diaspora'
\* entry expired and the raw entry of the Diaspora url unexpired, and
\* extracted the list again from the cached document
C17_Witness ==
    \E r \in Requests :
        /\ req[r].pc = "done"
        /\ req[r].resp.status = 200
        /\ req[r].tries = <<>>
        /\ req[r].snap.diaspora.present
        /\ now >= req[r].snap.diaspora.expiresAt
        /\ req[r].snap.raw.present
        /\ cache[AGG_URL_DIAS] = req[r].snap.raw
        /\ votes_cache["diaspora"] =
               DerivedEntry(extractDiaspora(req[r].snap.raw.value.uat))
        /\ req[r].resp.diaspora # <<>>

\* the objects a cache entry refers to
RECURSIVE Flatten(_)
Flatten(regions) ==
    IF regions = <<>> THEN {}
    ELSE {Head(regions)[i] : i \in DOMAIN Head(regions)} \cup Flatten(Tail(regions))

Cached ==
    UNION {Flatten(rawRef[u].refs) : u \in {x \in Urls : rawRef[x].present}}
    \cup UNION {Flatten(<<listRef[n].refs>>) : n \in {x \in ListNames : listRef[x].present}}

\* C13: no operation changes a field of a candidate object that a raw entry
\* or a derived entry refers to: every entry holds the fields it held when
\* it was set, and a request served from entries sends the lists as they
\* were stored (the votes are not added up again).
C13_CachedValuesImmutable ==
    /\ [](/\ \A u \in Urls :
                 rawRef[u].present => DerefRegions(heap, rawRef[u].refs) = stored.raw[u]
          /\ \A n \in ListNames :
                 listRef[n].present => Deref(heap, listRef[n].refs) = stored.lists[n])
    /\ [][/\ \A ref \in Cached : heap'[ref] = heap[ref]
          /\ (hreq.pc = "dia" /\ hreq'.pc = "idle") =>
                 /\ sent'.combined = stored'.lists["combined"]
                 /\ (/\ listRef["romania"].present
                     /\ hreq.romList = listRef["romania"].refs) =>
                        sent'.romania = stored.lists["romania"]
                 /\ (/\ listRef["diaspora"].present
                     /\ hreq.diaList = listRef["diaspora"].refs) =>
                        sent'.diaspora = stored.lists["diaspora"]]_vars

\* the combined list has been computed twice from the same 'romania' and
\* 'diaspora' entries, which share an id with votes on both sides
C13_Witness ==
    /\ stored.combines = 2
    /\ Len(heap) = 13
    /\ hreq.pc = "idle"
    /\ sent.status = 200
    /\ \A n \in ListNames : listRef[n].present
    /\ sent.romania = stored.lists["romania"]
    /\ sent.combined = stored.lists["combined"]
    /\ \E id \in Ids : VotesOf(sent.romania, id) > 0 /\ VotesOf(sent.diaspora, id) > 0
    /\ SumOfBoth(sent.romania, sent.diaspora, sent.combined)

\* a candidate of the list sortDiff returns, without its diff
Plain(c) == Cand(c.id, c.candidate, c.votes)

\* how many times a candidate occurs in a list
Occurrences(list, c) == Cardinality({i \in DOMAIN list : list[i] = c})

\* C20: sortDiff returns the candidates of its input, each as many times as
\* the input lists it, by votes descending; the diff of a candidate is its
\* votes minus the votes of the next one, 0 for the last; no diff is
\* negative; the input list is as it was.
C20_SortDiffOrdersAndGaps ==
    [][CallSortDiff =>
          /\ argR' = argR
          /\ Len(ret') = Len(argR)
          /\ \A i \in DOMAIN argR :
                 Occurrences(MapSeq(ret', Plain), argR[i]) = Occurrences(argR, argR[i])
          /\ \A i \in DOMAIN ret' :
                 /\ i < Len(ret') =>
                        /\ ret'[i].votes >= ret'[i + 1].votes
                        /\ ret'[i].diff = ret'[i].votes - ret'[i + 1].votes
                 /\ i = Len(ret') => ret'[i].diff = 0
                 /\ ret'[i].diff >= 0]_vars

\* sortDiff has run on a list that was not in order, with a tie and a gap
C20_Witness ==
    /\ op = "sortDiff"
    /\ Len(argR) >= 3
    /\ \E i \in DOMAIN argR : i < Len(argR) /\ argR[i].votes < argR[i + 1].votes
    /\ \E i \in DOMAIN ret : ret[i].diff > 0
    /\ \E i \in DOMAIN ret : i < Len(ret) /\ ret[i].diff = 0
    /\ MapSeq(ret, Plain) # argR

\* which version of the document of a url a raw document is (0 for a body
\* that is none of them)
VersionOfDoc(url, doc) ==
    IF \E v \in DOMAIN Versions(url) : Versions(url)[v] = doc
    THEN CHOOSE v \in DOMAIN Versions(url) : Versions(url)[v] = doc
    ELSE 0

\* the list getRomaniaVotesCount or getDiasporaVotesCount extracts from a
\* version of the document
ListOfVersion(n, v) ==
    IF n = "romania" THEN Versions(AGG_URL)[v].ro
    ELSE extractDiaspora(Versions(AGG_URL_DIAS)[v].uat)

\* which version a derived list was extracted from (0 for none of them)
VersionOfList(n, list) ==
    IF \E v \in 1..2 : ListOfVersion(n, v) = list
    THEN CHOOSE v \in 1..2 : ListOfVersion(n, v) = list
    ELSE 0

\* C21: with overlapping requests, the raw entry of a url and the 'romania'
\* and 'diaspora' entries never go back to an older version of the upstream
\* document than the one the entry holds: a write never replaces data of a
\* newer version by data of an older one.
C21_NoVersionRegression ==
    [][/\ \A u \in Urls :
              (/\ cache[u].present /\ cache'[u].present
               /\ VersionOfDoc(u, cache[u].value) > 0
               /\ VersionOfDoc(u, cache'[u].value) > 0) =>
                  VersionOfDoc(u, cache'[u].value) >= VersionOfDoc(u, cache[u].value)
          /\ \A n \in {"romania", "diaspora"} :
              (/\ votes_cache[n].present /\ votes_cache'[n].present
               /\ VersionOfList(n, votes_cache[n].value) > 0
               /\ VersionOfList(n, votes_cache'[n].value) > 0) =>
                  VersionOfList(n, votes_cache'[n].value) >=
                      VersionOfList(n, votes_cache[n].value)]_vars

----------------------------------------------------------------------------
(* The age of what a response carries *)

\* the clock advances, for as long as it takes an entry to outlive both
\* lifetimes
Elapse ==
    /\ now < TTL_MS + CACHE_TIMEOUT
    /\ now' = now + 1
    /\ UNCHANGED <<upstream, cache, votes_cache, browser, launched, alive, req, pages, Rest>>

\* requests served one after the other, the upstream and the browser steady
NextAge == Handler(1) \/ Elapse

SpecAge == Init /\ [][NextAge]_vars

\* request r sends a 200 response in this step
Sends200(r) ==
    /\ req[r].pc # "done"
    /\ req'[r].pc = "done"
    /\ req'[r].resp.status = 200

RomaniaFresh(r) == now' - origin'.resp[r].romania < TTL_MS + CACHE_TIMEOUT

DiasporaFresh(r) == now' - origin'.resp[r].diaspora < TTL_MS + CACHE_TIMEOUT

CombinedFresh(r) == now' - origin'.resp[r].combined < CACHE_TIMEOUT

\* the same of the requests answered within two units of their arrival
QuickRomaniaIsFresh ==
    [][\A r \in Requests :
           (Sends200(r) /\ now' - origin'.since[r] <= 2) => RomaniaFresh(r)]_vars

PromptRomaniaIsFresh ==
    [][\A r \in Requests :
           (Sends200(r) /\ now' - origin'.since[r] <= 1) => RomaniaFresh(r)]_vars

RomaniaIsFresh == [][\A r \in Requests : Sends200(r) => RomaniaFresh(r)]_vars

DiasporaIsFresh == [][\A r \in Requests : Sends200(r) => DiasporaFresh(r)]_vars

CombinedIsFresh == [][\A r \in Requests : Sends200(r) => CombinedFresh(r)]_vars

\* C22: when a 200 response is sent, the documents its romania and diaspora
\* lists were extracted from came from the upstream less than
\* TTL_MS + CACHE_TIMEOUT ago, and its combined list was computed less than
\* CACHE_TIMEOUT ago
C22_StalenessBounded ==
    [][\A r \in Requests :
           Sends200(r) =>
               /\ RomaniaFresh(r)
               /\ DiasporaFresh(r)
               /\ CombinedFresh(r)]_vars

====
